---- MODULE Spec2Model ----
(***************************************************************************)
(* Bed-leveling coordination layer (feature/bedlevel/bedlevel.cpp):        *)
(* set_bed_leveling_enabled, TemporaryBedLevelingState, set_z_fade_height, *)
(* reset_bed_level, print_2d_array and _manual_goto_xy, run by the command  *)
(* thread while the motion executor consumes the planner queue.            *)
(*                                                                         *)
(* Coordinates are exact rationals <<n, d>> (d > 0, lowest terms), so that *)
(* the linear fade and its inverse are computed without rounding.          *)
(***************************************************************************)
EXTENDS Integers, Sequences, FiniteSets, TLC

VARIABLES
    cfg,                \* build configuration (backend, manual-probe options)
    leveling_active,    \* planner.leveling_active
    z_fade_height,      \* planner.z_fade_height
    current_position,   \* current_position (the one stored vector)
    plan_position,      \* the planner's committed position
    z_values,           \* bedlevel mesh: correction per XY point
    mesh_valid,         \* bedlevel.mesh_is_valid()
    bed_level_matrix,   \* planner.bed_level_matrix (ABL_PLANAR)
    queue,              \* planner block queue, head = block being executed
    wait_for_move,      \* ui.wait_for_move
    pc,                 \* position of the command thread
    ret,                \* where set_bed_leveling_enabled returns to
    op,                 \* the top-level operation in progress
    enable,             \* argument of set_bed_leveling_enabled
    locals,             \* locals of set_z_fade_height / _manual_goto_xy
    tbls,               \* the live TemporaryBedLevelingState, if any; dirty:
                        \* something other than set_bed_leveling_enabled ran in it
    moves,              \* blocking moves issued by the running _manual_goto_xy
    serial,             \* characters the running print_2d_array wrote to the host
    obs                 \* observation of the running operation (history)

vars == <<cfg, leveling_active, z_fade_height, current_position, plan_position,
          z_values, mesh_valid, bed_level_matrix, queue, wait_for_move,
          pc, ret, op, enable, locals, tbls, moves, serial, obs>>

\* ------------------------------------------------------------------ bounds

\* Capacity of the planner queue in the model.
MaxQueue == 2

\* Largest grid print_2d_array is given in the model: columns and rows.
MaxCols == 2
MaxRows == 2

\* ------------------------------------------------------- exact arithmetic

Abs(n) == IF n < 0 THEN -n ELSE n

RECURSIVE GCD(_, _)
GCD(a, b) == IF b = 0 THEN a ELSE GCD(b, a % b)

\* The rational n/d in lowest terms with a positive denominator.
Norm(n, d) ==
    LET s == IF d < 0 THEN -1 ELSE 1
        g == GCD(Abs(n), Abs(d))
    IN  <<(s * n) \div g, (s * d) \div g>>

R(n) == <<n, 1>>
RAdd(a, b) == Norm(a[1] * b[2] + b[1] * a[2], a[2] * b[2])
RSub(a, b) == Norm(a[1] * b[2] - b[1] * a[2], a[2] * b[2])
RMul(a, b) == Norm(a[1] * b[1], a[2] * b[2])
RDiv(a, b) == Norm(a[1] * b[2], a[2] * b[1])
RLe(a, b) == a[1] * b[2] <= b[1] * a[2]
RGe(a, b) == RLe(b, a)

Pos(x, y, z) == [x |-> x, y |-> y, z |-> z]
PosI(x, y, z) == Pos(R(x), R(y), R(z))

\* ------------------------------------------------------ build configuration

\* AUTO_BED_LEVELING_BILINEAR, AUTO_BED_LEVELING_UBL, MESH_BED_LEVELING, and
\* ABL_PLANAR (AUTO_BED_LEVELING_3POINT or _LINEAR).
Backends == {"BILINEAR", "UBL", "MBL", "PLANAR"}

\* MANUAL_PROBE_START_Z defined or not (and its value),
\* Z_CLEARANCE_BETWEEN_MANUAL_PROBES, LCD_BED_LEVELING.
ManualConfigs ==
    { [has_start_z |-> TRUE,  start_z |-> 2,  clearance |-> 5, lcd |-> TRUE],
      [has_start_z |-> TRUE,  start_z |-> -1, clearance |-> 0, lcd |-> TRUE],
      [has_start_z |-> FALSE, start_z |-> 0,  clearance |-> 5, lcd |-> TRUE],
      [has_start_z |-> FALSE, start_z |-> 0,  clearance |-> 0, lcd |-> TRUE],
      [has_start_z |-> FALSE, start_z |-> 0,  clearance |-> 0, lcd |-> FALSE] }

\* The builds explored by Spec: every backend, with a starting Z and a
\* clearance configured.
MainManual == [has_start_z |-> TRUE, start_z |-> 2, clearance |-> 5, lcd |-> TRUE]
Build(b, m) ==
    [backend |-> b, has_start_z |-> m.has_start_z, start_z |-> m.start_z,
     clearance |-> m.clearance, lcd |-> m.lcd]
Configs == { Build(b, MainManual) : b \in Backends }

HAS_MESH == cfg.backend \in {"BILINEAR", "UBL", "MBL"}
ABL_PLANAR == cfg.backend = "PLANAR"

\* ----------------------------------------------------------- model inputs

XYPoints == {<<10, 10>>, <<20, 20>>}
\* Targets of motion commands: below the bed, inside and above a fade zone.
Targets == {<<10, 10, -1>>, <<20, 20, 8>>}
FadeHeights == {0, 4, 6}

\* The mesh a calibration produces (correction per XY point, smaller than
\* every positive fade height), and the cleared mesh.
ClearedMesh == [p \in XYPoints |-> 0]
Meshes == { [p \in XYPoints |-> IF p = <<10, 10>> THEN 1 ELSE -1] }

Identity == <<<<1, 0, 0>>, <<0, 1, 0>>, <<0, 0, 1>>>>
\* A rotation of the bed plane about the X axis.
TiltX == <<<<1, 0, 0>>, <<0, 0, -1>>, <<0, 1, 0>>>>
Matrices == {Identity, TiltX}

\* ------------------------------------------------- planner: the transform

\* bedlevel.get_z_correction(raw): the mesh correction at raw's XY.
get_z_correction(raw) ==
    LET p == <<raw.x[1], raw.y[1]>>
    IN  IF raw.x[2] = 1 /\ raw.y[2] = 1 /\ p \in XYPoints THEN R(z_values[p]) ELSE R(0)

\* Strength of the correction at height rz under fade height fade: full at
\* and below the bed, decaying linearly to zero at the fade height; a fade
\* height of 0 disables fading.
fade_scaling_factor_for_z(rz, fade) ==
    IF fade = 0 \/ RLe(rz, R(0)) THEN R(1)
    ELSE IF RGe(rz, R(fade)) THEN R(0)
    ELSE RSub(R(1), RDiv(rz, R(fade)))

Dot(row, raw) ==
    RAdd(RAdd(RMul(R(row[1]), raw.x), RMul(R(row[2]), raw.y)), RMul(R(row[3]), raw.z))
MatVec(m, raw) == Pos(Dot(m[1], raw), Dot(m[2], raw), Dot(m[3], raw))
Transpose(m) == [i \in 1..3 |-> [j \in 1..3 |-> m[j][i]]]

\* The forward transform (logical -> physical) with leveling `active` and
\* fade height `fade`.
apply_leveling(raw, active, fade) ==
    IF ~active THEN raw
    ELSE IF ABL_PLANAR THEN MatVec(bed_level_matrix, raw)
    ELSE [raw EXCEPT !.z =
            RAdd(raw.z, RMul(fade_scaling_factor_for_z(raw.z, fade), get_z_correction(raw)))]

\* The inverse transform (physical -> logical).
unapply_leveling(raw, active, fade) ==
    IF ~active THEN raw
    ELSE IF ABL_PLANAR THEN MatVec(Transpose(bed_level_matrix), raw)
    ELSE LET c == get_z_correction(raw)
             z_no_fade == RSub(raw.z, c)
         IN  [raw EXCEPT !.z =
                IF fade = 0 \/ RLe(z_no_fade, R(0)) THEN z_no_fade
                ELSE IF RGe(raw.z, R(fade)) THEN raw.z
                ELSE RDiv(z_no_fade, RSub(R(1), RDiv(c, R(fade))))]

apply_modifiers(raw) == apply_leveling(raw, leveling_active, z_fade_height)
unapply_modifiers(raw) == unapply_leveling(raw, leveling_active, z_fade_height)

\* planner.synchronize() returns once no block is queued or being executed.
synchronized == queue = <<>>

\* A planned block remembers the leveling state it was planned under.
Block == [leveling |-> leveling_active]

\* ------------------------------------------------------------ bookkeeping

planner == <<leveling_active, z_fade_height, current_position, plan_position>>
bed == <<z_values, mesh_valid, bed_level_matrix>>

NoPos == PosI(0, 0, 0)
NoGrid == [sx |-> 0, sy |-> 0, precision |-> 0, values |-> <<>>]
NoLocals == [zfh |-> 0, do_report |-> FALSE, was_active |-> FALSE, oldpos |-> NoPos,
             target |-> <<0, 0>>, has_finalz |-> FALSE, finalz |-> R(0),
             grid |-> NoGrid]
NoTbls == [open |-> FALSE, saved |-> FALSE, dirty |-> FALSE]

\* What an operation can change, as seen by its caller.
Snapshot == [active |-> leveling_active, fade |-> z_fade_height,
             pos |-> current_position, plan |-> plan_position,
             valid |-> mesh_valid, mesh |-> z_values,
             matrix |-> bed_level_matrix, waiting |-> wait_for_move]
NoSnapshot == [active |-> FALSE, fade |-> 0, pos |-> NoPos, plan |-> NoPos,
               valid |-> FALSE, mesh |-> ClearedMesh, matrix |-> Identity,
               waiting |-> FALSE]

\* obs.pre: the state when the running operation was entered; swaps, drains:
\* flips of leveling_active and completed queue drains in it; waited: the
\* executor ran a block while the operation waited in synchronize; reported:
\* report_current_position was called; last: the argument of the directly
\* preceding set_bed_leveling_enabled call ("none" after anything else);
\* ref_pos, ref_active: the position and flag when the current run of
\* consecutive set_bed_leveling_enabled calls began (a scope's constructor
\* begins a run).
Begin ==
    [obs EXCEPT !.pre = Snapshot, !.swaps = 0, !.drains = 0,
                !.waited = FALSE, !.reported = FALSE, !.cleared = 0]
BeginRun ==
    IF obs.last = "none"
      THEN [Begin EXCEPT !.ref_pos = current_position, !.ref_active = leveling_active]
      ELSE Begin
Rebase(o) == [o EXCEPT !.last = "none", !.ref_pos = NoPos, !.ref_active = FALSE]

\* ------------------------------------------------------------------- Init

Init ==
    /\ cfg \in Configs
    /\ leveling_active = FALSE
    /\ z_fade_height = 0
    /\ current_position = PosI(10, 10, 8)
    /\ plan_position = current_position
    /\ z_values = ClearedMesh
    /\ mesh_valid = FALSE
    /\ bed_level_matrix = Identity
    /\ queue = <<>>
    /\ wait_for_move = FALSE
    /\ pc = "idle"
    /\ ret = "none"
    /\ op = "none"
    /\ enable = FALSE
    /\ locals = NoLocals
    /\ tbls = NoTbls
    /\ moves = <<>>
    /\ serial = <<>>
    /\ obs = [pre |-> NoSnapshot, swaps |-> 0, drains |-> 0, waited |-> FALSE,
              reported |-> FALSE, cleared |-> 0, last |-> "none",
              ref_pos |-> NoPos, ref_active |-> FALSE]

\* ------------------------------------------------- leveling_is_valid (49-51)

leveling_is_valid == IF HAS_MESH THEN mesh_valid ELSE TRUE

\* ------------------------------------------ set_bed_leveling_enabled (59-86)

\* Mutant: the validity gate left out.
can_change_ungated(e) == TRUE

\* Line 62: TERN1(AUTO_BED_LEVELING_BILINEAR, !enable || leveling_is_valid()).
can_change(e) ==
    IF cfg.backend = "BILINEAR" THEN (~e \/ leveling_is_valid) ELSE TRUE

\* Mutant: can_change not consulted at line 64.
must_change_unchecked(e) == e # leveling_active

\* Mutant: the comparison with planner.leveling_active left out at line 64.
must_change_uncompared(e) == can_change(e)

\* Line 64: the condition under which the call does anything.
must_change(e) == can_change(e) /\ e # leveling_active

\* A call of set_bed_leveling_enabled(e) that continues at r when it returns.
Call(e, r) == pc' = "sble_entry" /\ enable' = e /\ ret' = r
Return == pc' = ret /\ ret' = "none"

\* A caller invokes set_bed_leveling_enabled(e).
SetBedLevelingEnabled(e) ==
    /\ pc = "idle"
    /\ Call(e, "done")
    /\ op' = "sble"
    /\ obs' = BeginRun
    /\ UNCHANGED <<cfg, serial, planner, bed, queue, wait_for_move, locals, tbls, moves>>

\* Lines 62-64.
SbleEntry ==
    /\ pc = "sble_entry"
    /\ IF must_change(enable)
         THEN pc' = "sble_sync" /\ ret' = ret
         ELSE Return
    /\ UNCHANGED <<cfg, serial, planner, bed, queue, wait_for_move, op, enable, locals,
                   tbls, moves, obs>>

\* Mutant: line 76 does not wait for the queue.
SbleSynchronize_nowait ==
    /\ pc = "sble_sync"
    /\ pc' = "sble_apply"
    /\ obs' = [obs EXCEPT !.drains = @ + 1]
    /\ UNCHANGED <<cfg, serial, planner, bed, queue, wait_for_move, ret, op, enable,
                   locals, tbls, moves>>

\* Line 76: planner.synchronize() blocks until the queue has drained.
SbleSynchronize ==
    /\ pc = "sble_sync"
    /\ synchronized
    /\ pc' = "sble_apply"
    /\ obs' = [obs EXCEPT !.drains = @ + 1]
    /\ UNCHANGED <<cfg, serial, planner, bed, queue, wait_for_move, ret, op, enable,
                   locals, tbls, moves>>

\* Mutant: line 79 left out, the position is not made physical first.
SbleApply_skipped ==
    /\ pc = "sble_apply"
    /\ pc' = "sble_flip"
    /\ UNCHANGED <<cfg, serial, planner, bed, queue, wait_for_move, ret, op, enable,
                   locals, tbls, moves, obs>>

\* Line 79: planner.apply_modifiers(current_position, true).
SbleApply ==
    /\ pc = "sble_apply"
    /\ current_position' = apply_modifiers(current_position)
    /\ pc' = "sble_flip"
    /\ UNCHANGED <<cfg, serial, leveling_active, z_fade_height, plan_position, bed, queue,
                   wait_for_move, ret, op, enable, locals, tbls, moves, obs>>

\* Line 80: FLIP(planner.leveling_active).
SbleFlip ==
    /\ pc = "sble_flip"
    /\ leveling_active' = ~leveling_active
    /\ pc' = "sble_unapply"
    /\ obs' = [obs EXCEPT !.swaps = @ + 1]
    /\ UNCHANGED <<cfg, serial, z_fade_height, current_position, plan_position, bed, queue,
                   wait_for_move, ret, op, enable, locals, tbls, moves>>

\* Mutant: line 81 left out, the position stays physical.
SbleUnapply_skipped ==
    /\ pc = "sble_unapply"
    /\ pc' = "sble_syncplan"
    /\ UNCHANGED <<cfg, serial, planner, bed, queue, wait_for_move, ret, op, enable,
                   locals, tbls, moves, obs>>

\* Line 81: planner.unapply_modifiers(current_position, true).
SbleUnapply ==
    /\ pc = "sble_unapply"
    /\ current_position' = unapply_modifiers(current_position)
    /\ pc' = "sble_syncplan"
    /\ UNCHANGED <<cfg, serial, leveling_active, z_fade_height, plan_position, bed, queue,
                   wait_for_move, ret, op, enable, locals, tbls, moves, obs>>

\* Line 83: sync_plan_position() commits the vector without planning a move.
SbleSyncPlan ==
    /\ pc = "sble_syncplan"
    /\ plan_position' = current_position
    /\ Return
    /\ UNCHANGED <<cfg, serial, leveling_active, z_fade_height, current_position, bed,
                   queue, wait_for_move, op, enable, locals, tbls, moves, obs>>

\* ---------------------------------------- TemporaryBedLevelingState (88-90)

\* Mutant: the constructor saves the requested value, not the current one.
TemporaryBedLevelingState_savesarg(e) ==
    /\ pc = "idle"
    /\ ~tbls.open
    /\ tbls' = [open |-> TRUE, saved |-> e, dirty |-> FALSE]
    /\ Call(e, "done")
    /\ op' = "tbls_ctor"
    /\ obs' = [Begin EXCEPT !.ref_pos = current_position, !.ref_active = leveling_active]
    /\ UNCHANGED <<cfg, serial, planner, bed, queue, wait_for_move, locals, moves>>

\* The constructor: saved(planner.leveling_active), then the call.
TemporaryBedLevelingState(e) ==
    /\ pc = "idle"
    /\ ~tbls.open
    /\ tbls' = [open |-> TRUE, saved |-> leveling_active, dirty |-> FALSE]
    /\ Call(e, "done")
    /\ op' = "tbls_ctor"
    /\ obs' = [Begin EXCEPT !.ref_pos = current_position, !.ref_active = leveling_active]
    /\ UNCHANGED <<cfg, serial, planner, bed, queue, wait_for_move, locals, moves>>

\* Leaving the scope: the saved value is restored by the same protocol.
TemporaryBedLevelingStateEnd ==
    /\ pc = "idle"
    /\ tbls.open
    /\ Call(tbls.saved, "done")
    /\ op' = "tbls_dtor"
    /\ obs' = BeginRun
    /\ UNCHANGED <<cfg, serial, planner, bed, queue, wait_for_move, locals, tbls, moves>>

\* ------------------------------------------------ set_z_fade_height (94-109)

\* Mutant: line 96 left out, an unchanged value takes the whole bracket.
SetZFadeHeight_noreturn(zfh, do_report) ==
    /\ pc = "idle"
    /\ op' = "szfh"
    /\ obs' = Begin
    /\ locals' = [NoLocals EXCEPT !.zfh = zfh, !.do_report = do_report,
                                  !.was_active = leveling_active]
    /\ Call(FALSE, "szfh_set")
    /\ UNCHANGED <<cfg, serial, planner, bed, queue, wait_for_move, tbls, moves>>

\* Mutant: line 99 left out, the fade height is stored with leveling on.
SetZFadeHeight_nodisable(zfh, do_report) ==
    /\ pc = "idle"
    /\ op' = "szfh"
    /\ obs' = Begin
    /\ IF z_fade_height = zfh
         THEN /\ pc' = "done"
              /\ locals' = [NoLocals EXCEPT !.zfh = zfh, !.do_report = do_report]
         ELSE /\ pc' = "szfh_set"
              /\ locals' = [NoLocals EXCEPT !.zfh = zfh, !.do_report = do_report,
                                            !.was_active = leveling_active]
    /\ UNCHANGED <<cfg, serial, planner, bed, queue, wait_for_move, ret, enable, tbls,
                   moves>>

\* Lines 94-99: return at once on an unchanged value; else remember whether
\* leveling was active and force it off.
SetZFadeHeight(zfh, do_report) ==
    /\ pc = "idle"
    /\ op' = "szfh"
    /\ obs' = Begin
    /\ IF z_fade_height = zfh
         THEN /\ pc' = "done"
              /\ locals' = [NoLocals EXCEPT !.zfh = zfh, !.do_report = do_report]
              /\ UNCHANGED <<ret, enable>>
         ELSE /\ locals' = [NoLocals EXCEPT !.zfh = zfh, !.do_report = do_report,
                                            !.was_active = leveling_active]
              /\ Call(FALSE, "szfh_set")
    /\ UNCHANGED <<cfg, serial, planner, bed, queue, wait_for_move, tbls, moves>>

\* Mutant: lines 103-108 left out, leveling is not turned back on.
SzfhSet_noreenable ==
    /\ pc = "szfh_set"
    /\ z_fade_height' = locals.zfh
    /\ pc' = "done"
    /\ UNCHANGED <<cfg, serial, leveling_active, current_position, plan_position, bed,
                   queue, wait_for_move, ret, op, enable, locals, tbls, moves, obs>>

\* Mutant: line 101 left out, the new fade height is not stored.
SzfhSet_nostore ==
    /\ pc = "szfh_set"
    /\ IF locals.was_active
         THEN /\ locals' = [locals EXCEPT !.oldpos = current_position]
              /\ Call(TRUE, "szfh_report")
         ELSE /\ pc' = "done"
              /\ UNCHANGED <<ret, enable, locals>>
    /\ UNCHANGED <<cfg, serial, planner, bed, queue, wait_for_move, op, tbls, moves,
                   obs>>

\* Lines 101-105: store the new fade height; re-enable if leveling was active.
SzfhSet ==
    /\ pc = "szfh_set"
    /\ z_fade_height' = locals.zfh
    /\ IF locals.was_active
         THEN /\ locals' = [locals EXCEPT !.oldpos = current_position]
              /\ Call(TRUE, "szfh_report")
         ELSE /\ pc' = "done"
              /\ UNCHANGED <<ret, enable, locals>>
    /\ UNCHANGED <<cfg, serial, leveling_active, current_position, plan_position, bed,
                   queue, wait_for_move, op, tbls, moves, obs>>

\* Lines 106-107: report the position if asked to and it changed.
SzfhReport ==
    /\ pc = "szfh_report"
    /\ obs' = [obs EXCEPT !.reported = locals.do_report /\ locals.oldpos # current_position]
    /\ pc' = "done"
    /\ UNCHANGED <<cfg, serial, planner, bed, queue, wait_for_move, ret, op, enable,
                   locals, tbls, moves>>

\* --------------------------------------------------- reset_bed_level (116-121)

\* Mutant: line 118 clears the flag itself instead of calling
\* set_bed_leveling_enabled.
ResetBedLevel_direct ==
    /\ pc = "idle"
    /\ op' = "rbl"
    /\ obs' = Begin
    /\ leveling_active' = FALSE
    /\ pc' = "rbl_reset"
    /\ UNCHANGED <<cfg, serial, z_fade_height, current_position, plan_position, bed,
                   queue, wait_for_move, ret, enable, locals, tbls, moves>>

\* Mutant: line 118 left out, the data is cleared with leveling still on.
ResetBedLevel_nodisable ==
    /\ pc = "idle"
    /\ op' = "rbl"
    /\ obs' = Begin
    /\ pc' = "rbl_reset"
    /\ UNCHANGED <<cfg, serial, planner, bed, queue, wait_for_move, ret, enable, locals,
                   tbls, moves>>

\* Line 118: IF_DISABLED(AUTO_BED_LEVELING_UBL, set_bed_leveling_enabled(false)).
ResetBedLevel ==
    /\ pc = "idle"
    /\ op' = "rbl"
    /\ obs' = Begin
    /\ IF cfg.backend # "UBL"
         THEN Call(FALSE, "rbl_reset")
         ELSE pc' = "rbl_reset" /\ UNCHANGED <<ret, enable>>
    /\ UNCHANGED <<cfg, serial, planner, bed, queue, wait_for_move, locals, tbls, moves>>

\* bedlevel.reset(): the measured data is cleared and the mesh is invalid.
MeshCleared == z_values' = ClearedMesh /\ mesh_valid' = FALSE

\* Line 119: TERN_(HAS_MESH, bedlevel.reset()). The unified mesh manages its
\* own enable state: its reset turns leveling off by the same protocol first.
RblReset ==
    /\ pc = "rbl_reset"
    /\ IF HAS_MESH /\ cfg.backend = "UBL"
         THEN /\ Call(FALSE, "rbl_clear")
              /\ UNCHANGED <<z_values, mesh_valid>>
         ELSE /\ pc' = "rbl_matrix"
              /\ IF HAS_MESH THEN MeshCleared ELSE UNCHANGED <<z_values, mesh_valid>>
              /\ UNCHANGED <<ret, enable>>
    /\ UNCHANGED <<cfg, serial, planner, bed_level_matrix, queue, wait_for_move, op,
                   locals, tbls, moves, obs>>

RblClear ==
    /\ pc = "rbl_clear"
    /\ MeshCleared
    /\ pc' = "rbl_matrix"
    /\ UNCHANGED <<cfg, serial, planner, bed_level_matrix, queue, wait_for_move, ret, op,
                   enable, locals, tbls, moves, obs>>

\* Line 120: TERN_(ABL_PLANAR, planner.bed_level_matrix.set_to_identity()).
RblMatrix ==
    /\ pc = "rbl_matrix"
    /\ bed_level_matrix' = IF ABL_PLANAR THEN Identity ELSE bed_level_matrix
    /\ pc' = "done"
    /\ UNCHANGED <<cfg, serial, planner, z_values, mesh_valid, queue, wait_for_move, ret,
                   op, enable, locals, tbls, moves, obs>>

\* ---------------------------------------------------- print_2d_array (138-187)

\* The float that is not a number (an unmeasured point), as 0/0.
NaN == <<0, 0>>
isnan(v) == v[2] = 0

\* Values of a grid cell: unmeasured, 1/2 and -3/2.
CellValues == {NaN, <<1, 2>>, <<-3, 2>>}
Precisions == {1, 2}

\* The arguments of one call: values is the array, 0-based in the source and
\* 1-based here.
Grid(a, b, p, v) == [sx |-> a, sy |-> b, precision |-> p, values |-> v]

\* The reports made between the other operations: a 2x1 and a 1x2 grid.
ReportGrids == { Grid(2, 1, 2, <<NaN, <<1, 2>>>>), Grid(1, 2, 2, <<NaN, <<1, 2>>>>) }

EOL == "\n"
SERIAL_EOL == <<EOL>>
SERIAL_ECHO_SP(n) == [i \in 1..n |-> " "]

Digit(d) == <<"0", "1", "2", "3", "4", "5", "6", "7", "8", "9">>[d + 1]

\* SERIAL_ECHO of an unsigned integer: its decimal digits.
RECURSIVE SERIAL_ECHO(_)
SERIAL_ECHO(n) == IF n < 10 THEN <<Digit(n)>> ELSE SERIAL_ECHO(n \div 10) \o <<Digit(n % 10)>>

\* The p fractional digits of f / 10^p.
RECURSIVE Fraction(_, _)
Fraction(f, p) == IF p = 0 THEN <<>> ELSE Fraction(f \div 10, p - 1) \o <<Digit(f % 10)>>

\* SERIAL_ECHO(p_float_t(v, p)): sign if negative, integer part, point, p
\* fractional digits. The cell values are exact at the precisions used.
p_float_t(v, p) ==
    LET a == Abs(v[1])
        f == ((a % v[2]) * 10^p) \div v[2]
    IN  (IF v[1] < 0 THEN <<"-">> ELSE <<>>) \o SERIAL_ECHO(a \div v[2]) \o <<".">>
            \o Fraction(f, p)

\* Mutant: the array read row by row.
offset_rowmajor(g, x, y) == g.values[y * g.sx + x + 1]

\* Line 158: const float offset = values[x * sy + y].
offset(g, x, y) == g.values[x * g.sy + y + 1]

\* Lines 140-143: the column indexes from x on.
RECURSIVE HeaderFrom(_, _)
HeaderFrom(g, x) ==
    IF x < g.sx
      THEN SERIAL_ECHO_SP(g.precision + (IF x < 10 THEN 3 ELSE 2)) \o SERIAL_ECHO(x)
               \o HeaderFrom(g, x + 1)
      ELSE <<>>

\* Lines 169-170: for (i = 0; i < precision + 3; ++i) SERIAL_CHAR(i ? '=' : ' ').
NanFill(p) == [i \in 1..(p + 3) |-> IF i = 1 THEN " " ELSE "="]

\* Lines 157-172: one cell.
Cell(g, x, y) ==
    <<" ">> \o
    (IF ~isnan(offset(g, x, y))
       THEN (IF RGe(offset(g, x, y), R(0)) THEN <<"+">> ELSE <<>>)
                \o p_float_t(offset(g, x, y), g.precision)
       ELSE NanFill(g.precision))

\* Lines 156-176: the cells of row y from column x on.
RECURSIVE CellsFrom(_, _, _)
CellsFrom(g, x, y) ==
    IF x < g.sx THEN Cell(g, x, y) \o CellsFrom(g, x + 1, y) ELSE <<>>

\* Lines 149-182: the rows from y on, each ended by SERIAL_EOL.
RECURSIVE RowsFrom(_, _)
RowsFrom(g, y) ==
    IF y < g.sy
      THEN (IF y < 10 THEN <<" ">> ELSE <<>>) \o SERIAL_ECHO(y) \o CellsFrom(g, 0, y)
               \o SERIAL_EOL \o RowsFrom(g, y + 1)
      ELSE <<>>

\* What print_2d_array writes (SCAD_MESH_OUTPUT not defined).
print_2d_array(g) == HeaderFrom(g, 0) \o SERIAL_EOL \o RowsFrom(g, 0) \o SERIAL_EOL

\* Line 123: compiled for AUTO_BED_LEVELING_BILINEAR and MESH_BED_LEVELING.
Print2DArray(g) ==
    /\ pc = "idle"
    /\ cfg.backend \in {"BILINEAR", "MBL"}
    /\ op' = "print"
    /\ obs' = Begin
    /\ locals' = [NoLocals EXCEPT !.grid = g]
    /\ serial' = print_2d_array(g)
    /\ pc' = "done"
    /\ UNCHANGED <<cfg, planner, bed, queue, wait_for_move, ret, enable, tbls, moves>>

\* --------------------------------------------------- _manual_goto_xy (193-214)

RMax(a, b) == IF RLe(a, b) THEN b ELSE a

\* Mutant: the configured starting Z taken as it is.
finalz_unclamped == IF cfg.has_start_z THEN R(cfg.start_z) ELSE current_position.z

\* Lines 196-204: the resting Z for after the XY move.
finalz == IF cfg.has_start_z THEN RMax(R(0), R(cfg.start_z)) ELSE current_position.z

\* The blocking moves of the motion module, as commands to an absolute target.
MoveToXYZ(xy, z) == [kind |-> "xy_z", x |-> R(xy[1]), y |-> R(xy[2]), z |-> z]
MoveToZ(z) == [kind |-> "z", x |-> current_position.x, y |-> current_position.y, z |-> z]
MoveToXY(xy) == [kind |-> "xy", x |-> R(xy[1]), y |-> R(xy[2]), z |-> current_position.z]

\* A blocking move is planned (queued) and the position becomes its target.
Issue(cmd) ==
    /\ Len(queue) < MaxQueue
    /\ moves' = Append(moves, cmd)
    /\ current_position' = Pos(cmd.x, cmd.y, cmd.z)
    /\ plan_position' = Pos(cmd.x, cmd.y, cmd.z)
    /\ queue' = Append(queue, Block)

\* Mutant: the clearance taken as a raise above the current Z.
first_move_relative(xy) ==
    IF cfg.clearance > 0 THEN MoveToXYZ(xy, RAdd(current_position.z, R(cfg.clearance)))
    ELSE IF cfg.has_start_z THEN MoveToXYZ(xy, locals.finalz)
    ELSE MoveToXY(xy)

\* Lines 205, 208, 210: the first move of the policy the build selects.
first_move(xy) ==
    IF cfg.clearance > 0 THEN MoveToXYZ(xy, R(cfg.clearance))
    ELSE IF cfg.has_start_z THEN MoveToXYZ(xy, locals.finalz)
    ELSE MoveToXY(xy)

ManualGotoXY(xy) ==
    /\ pc = "idle"
    /\ op' = "goto"
    /\ wait_for_move' \in (IF cfg.lcd THEN BOOLEAN ELSE {FALSE})
    /\ obs' = [Begin EXCEPT !.pre.waiting = wait_for_move']
    /\ locals' = [NoLocals EXCEPT !.target = xy,
                    !.has_finalz = cfg.has_start_z \/ cfg.clearance > 0,
                    !.finalz = IF cfg.has_start_z \/ cfg.clearance > 0 THEN finalz ELSE R(0)]
    /\ pc' = "mg_first"
    /\ UNCHANGED <<cfg, serial, planner, bed, queue, ret, enable, tbls, moves>>

MgFirst ==
    /\ pc = "mg_first"
    /\ Issue(first_move(locals.target))
    /\ pc' = "mg_first_wait"
    /\ UNCHANGED <<cfg, serial, leveling_active, z_fade_height, bed, wait_for_move, ret, op,
                   enable, locals, tbls, obs>>

\* Line 206: do_blocking_move_to_z(finalz), only with a clearance.
MgSecond ==
    /\ pc = "mg_second"
    /\ Issue(MoveToZ(locals.finalz))
    /\ pc' = "mg_second_wait"
    /\ UNCHANGED <<cfg, serial, leveling_active, z_fade_height, bed, wait_for_move, ret, op,
                   enable, locals, tbls, obs>>

\* A blocking move returns when the executor has finished it.
MgWait ==
    /\ pc \in {"mg_first_wait", "mg_second_wait"}
    /\ synchronized
    /\ pc' = IF pc = "mg_first_wait" /\ cfg.clearance > 0 THEN "mg_second" ELSE "mg_clear"
    /\ UNCHANGED <<cfg, serial, planner, bed, queue, wait_for_move, ret, op, enable, locals,
                   tbls, moves, obs>>

\* Mutant: line 213 left out, the flag is left as it was.
MgClear_skipped ==
    /\ pc = "mg_clear"
    /\ pc' = "done"
    /\ UNCHANGED <<cfg, serial, planner, bed, queue, wait_for_move, ret, op, enable,
                   locals, tbls, moves, obs>>

\* Line 213: TERN_(LCD_BED_LEVELING, ui.wait_for_move = false).
MgClear ==
    /\ pc = "mg_clear"
    /\ wait_for_move' = IF cfg.lcd THEN FALSE ELSE wait_for_move
    /\ obs' = IF cfg.lcd THEN [obs EXCEPT !.cleared = @ + 1] ELSE obs
    /\ pc' = "done"
    /\ UNCHANGED <<cfg, serial, planner, bed, queue, ret, op, enable, locals, tbls, moves>>

\* ------------------------------------------------------------ environment

\* A motion command: the move is planned and the position becomes its target.
Move(t) ==
    /\ pc = "idle"
    /\ Len(queue) < MaxQueue
    /\ current_position' = PosI(t[1], t[2], t[3])
    /\ plan_position' = current_position'
    /\ queue' = Append(queue, Block)
    /\ obs' = Rebase(obs)
    /\ tbls' = [tbls EXCEPT !.dirty = tbls.open]
    /\ UNCHANGED <<cfg, serial, leveling_active, z_fade_height, bed, wait_for_move, pc, ret,
                   op, enable, locals, moves>>

\* A calibration run stores measured data in the backend; the bed is
\* measured with the correction off.
Calibrate ==
    /\ pc = "idle"
    /\ ~leveling_active
    /\ IF HAS_MESH
         THEN z_values' \in Meshes /\ mesh_valid' = TRUE /\ UNCHANGED bed_level_matrix
         ELSE bed_level_matrix' \in Matrices /\ UNCHANGED <<z_values, mesh_valid>>
    /\ obs' = Rebase(obs)
    /\ tbls' = [tbls EXCEPT !.dirty = tbls.open]
    /\ UNCHANGED <<cfg, serial, planner, queue, wait_for_move, pc, ret, op, enable, locals, moves>>

\* The motion executor finishes the block at the head of the queue.
Execute ==
    /\ queue # <<>>
    /\ queue' = Tail(queue)
    /\ obs' = [obs EXCEPT !.waited = @ \/ pc = "sble_sync"]
    /\ UNCHANGED <<cfg, serial, planner, bed, wait_for_move, pc, ret, op, enable, locals,
                   tbls, moves>>

\* The operation has returned to its caller.
Done ==
    /\ pc = "done"
    /\ pc' = "idle"
    /\ op' = "none"
    /\ enable' = FALSE
    /\ locals' = NoLocals
    /\ moves' = <<>>
    /\ tbls' = IF op = "tbls_dtor" THEN NoTbls
               ELSE IF op \in {"szfh", "rbl", "goto"} THEN [tbls EXCEPT !.dirty = tbls.open]
               ELSE tbls
    /\ obs' = LET o == [obs EXCEPT !.pre = NoSnapshot, !.swaps = 0, !.drains = 0,
                                   !.waited = FALSE, !.reported = FALSE, !.cleared = 0]
              IN  IF op \in {"sble", "tbls_ctor", "tbls_dtor"}
                    THEN [o EXCEPT !.last = IF enable THEN "on" ELSE "off"]
                  ELSE IF op = "print" THEN o
                  ELSE Rebase(o)
    /\ serial' = <<>>
    /\ UNCHANGED <<cfg, planner, bed, queue, wait_for_move, ret>>

Next ==
    \/ \E e \in BOOLEAN : SetBedLevelingEnabled(e)
    \/ SbleEntry
    \/ SbleSynchronize
    \/ SbleApply
    \/ SbleFlip
    \/ SbleUnapply
    \/ SbleSyncPlan
    \/ \E e \in BOOLEAN : TemporaryBedLevelingState(e)
    \/ TemporaryBedLevelingStateEnd
    \/ \E zfh \in FadeHeights, r \in BOOLEAN : SetZFadeHeight(zfh, r)
    \/ SzfhSet
    \/ SzfhReport
    \/ ResetBedLevel
    \/ RblReset
    \/ RblClear
    \/ RblMatrix
    \/ \E g \in ReportGrids : Print2DArray(g)
    \/ \E xy \in XYPoints : ManualGotoXY(xy)
    \/ MgFirst
    \/ MgSecond
    \/ MgWait
    \/ MgClear
    \/ \E t \in Targets : Move(t)
    \/ Calibrate
    \/ Execute
    \/ Done

Spec == Init /\ [][Next]_vars

\* The manual probe sequencer alone, in a MESH_BED_LEVELING build with each
\* of the manual-probe option sets, from positions above and below the bed.
InitManual ==
    /\ cfg \in { Build("MBL", m) : m \in ManualConfigs }
    /\ leveling_active = FALSE
    /\ z_fade_height = 0
    /\ current_position \in { PosI(10, 10, 8), PosI(10, 10, -1) }
    /\ plan_position = current_position
    /\ z_values = ClearedMesh
    /\ mesh_valid = FALSE
    /\ bed_level_matrix = Identity
    /\ queue = <<>>
    /\ wait_for_move = FALSE
    /\ pc = "idle"
    /\ ret = "none"
    /\ op = "none"
    /\ enable = FALSE
    /\ locals = NoLocals
    /\ tbls = NoTbls
    /\ moves = <<>>
    /\ serial = <<>>
    /\ obs = [pre |-> NoSnapshot, swaps |-> 0, drains |-> 0, waited |-> FALSE,
              reported |-> FALSE, cleared |-> 0, last |-> "none",
              ref_pos |-> NoPos, ref_active |-> FALSE]

NextManual ==
    \/ \E xy \in XYPoints : ManualGotoXY(xy)
    \/ MgFirst
    \/ MgSecond
    \/ MgWait
    \/ MgClear
    \/ \E t \in Targets : Move(t)
    \/ Execute
    \/ Done

SpecManual == InitManual /\ [][NextManual]_vars

\* A report of some grid of up to MaxCols x MaxRows values.
Print2DArrayOfSome ==
    /\ pc = "idle"
    /\ \E a \in 1..MaxCols, b \in 1..MaxRows, p \in Precisions :
          \E v \in [1..(a * b) -> CellValues] : Print2DArray(Grid(a, b, p, v))

\* print_2d_array alone.
NextPrint ==
    \/ Print2DArrayOfSome
    \/ Done

\* A MESH_BED_LEVELING build, as started.
InitPrint == Init /\ cfg.backend = "MBL"

SpecPrint == InitPrint /\ [][NextPrint]_vars

\* set_bed_leveling_enabled alone against the motion executor. The command
\* thread runs the function to its end unless planner.synchronize() holds it,
\* and the executor keeps consuming the blocks that are queued.
NextDrain ==
    \/ \E e \in BOOLEAN : SetBedLevelingEnabled(e)
    \/ SbleEntry
    \/ SbleSynchronize
    \/ SbleApply
    \/ SbleFlip
    \/ SbleUnapply
    \/ SbleSyncPlan
    \/ \E t \in Targets : Move(t)
    \/ Calibrate
    \/ Execute
    \/ Done

SbleStep ==
    SbleEntry \/ SbleSynchronize \/ SbleApply \/ SbleFlip \/ SbleUnapply \/ SbleSyncPlan

SpecDrain == Init /\ [][NextDrain]_vars /\ WF_vars(Execute) /\ WF_vars(SbleStep)

\* ------------------------------------------------------------- properties

\* A call of set_bed_leveling_enabled made by a caller (directly, or by the
\* constructor or the end of a scope) has returned.
SbleOps == {"sble", "tbls_ctor", "tbls_dtor"}
SbleDone == pc = "done" /\ op \in SbleOps
Arg == IF enable THEN "on" ELSE "off"

\* The correction at position p under fade height f is zero.
ZeroCorrection(p, f) == apply_leveling(p, TRUE, f) = p

\* C1 as stated: after every completed transition of leveling_active in a run
\* of set_bed_leveling_enabled calls with no motion in between, the stored
\* position (the one callers read) equals the position p the run began with.
C1_PositionInvariant ==
    (SbleDone /\ obs.swaps > 0) => current_position = obs.ref_pos

\* C1, amended: after every completed transition in such a run, the stored
\* position equals p whenever leveling_active has the value it had when p was
\* read; under the other value it is p with the active transform applied
\* (after a disable) or removed (after an enable).
C1_PositionRoundTrip ==
    (SbleDone /\ obs.swaps > 0) =>
        IF leveling_active = obs.ref_active THEN current_position = obs.ref_pos
        ELSE IF leveling_active THEN apply_modifiers(current_position) = obs.ref_pos
        ELSE current_position = apply_leveling(obs.ref_pos, TRUE, z_fade_height)

\* A run that toggled away and back, at a point with a non-zero correction.
C1_Witness ==
    /\ SbleDone /\ obs.swaps = 1 /\ obs.last # "none"
    /\ leveling_active = obs.ref_active
    /\ current_position = obs.ref_pos
    /\ ~ZeroCorrection(current_position, z_fade_height)

\* C2: the queue is empty from the flip of leveling_active until the planner
\* position is synchronized again (the executor has nothing to run in
\* between), and every queued or executing block was planned under the
\* current value of leveling_active.
C2_DrainBeforeWrite ==
    /\ pc \in {"sble_apply", "sble_flip", "sble_unapply", "sble_syncplan"} => queue = <<>>
    /\ \A i \in 1..Len(queue) : queue[i].leveling = leveling_active

\* The flag was flipped after the call waited for the executor to drain.
C2_Witness == pc = "sble_syncplan" /\ obs.waited /\ obs.swaps = 1

\* C3 as stated: in every mesh-backed build, set_bed_leveling_enabled(true)
\* with an invalid mesh returns with leveling_active false.
C3_GateEveryMesh ==
    (HAS_MESH /\ SbleDone /\ enable /\ ~obs.pre.valid) => ~leveling_active

\* C3, amended: in the AUTO_BED_LEVELING_BILINEAR build,
\* set_bed_leveling_enabled(true) with an invalid mesh returns with
\* leveling_active false.
C3_GateBilinear ==
    (cfg.backend = "BILINEAR" /\ SbleDone /\ enable /\ ~obs.pre.valid) => ~leveling_active

C3_Witness ==
    /\ cfg.backend = "BILINEAR" /\ SbleDone /\ op = "sble" /\ enable
    /\ ~obs.pre.valid /\ ~leveling_active

\* The call is refused by the validity gate.
Refused == cfg.backend = "BILINEAR" /\ SbleDone /\ enable /\ ~obs.pre.valid

\* C4: a refused set_bed_leveling_enabled(true) returns with the flag, the
\* fade height, the stored position and the planner position as they were on
\* entry, having waited for no drain and flipped nothing.
C4_RefusalChangesNothing ==
    Refused =>
        /\ Snapshot = obs.pre
        /\ obs.swaps = 0 /\ obs.drains = 0 /\ ~obs.waited /\ ~obs.reported

\* A refusal while blocks are still queued.
C4_Witness == Refused /\ op = "sble" /\ queue # <<>>

\* C5: a set_bed_leveling_enabled(x) directly after another call with the
\* same x returns in the state it was entered in, with no drain and no flip;
\* and no call flips the flag more than once.
C5_Idempotent ==
    /\ (SbleDone /\ obs.last = Arg) =>
           (Snapshot = obs.pre /\ obs.swaps = 0 /\ obs.drains = 0)
    /\ op \in SbleOps => obs.swaps <= 1

\* The second of two enabling calls, the first of which has succeeded.
C5_Witness ==
    SbleDone /\ op = "sble" /\ obs.last = Arg /\ enable /\ leveling_active

\* C6 as stated: whenever a scope is left, leveling_active equals the value
\* it had when the scope was entered.
C6_ScopeAlwaysRestores ==
    (pc = "done" /\ op = "tbls_dtor") => leveling_active = tbls.saved

\* C6, amended: the constructor saves the current flag; when the scope is
\* left the flag equals the saved value unless the restoring call is refused
\* by the validity gate (bilinear build, saved value true, mesh invalidated
\* inside the scope); and if nothing but set_bed_leveling_enabled calls ran
\* inside the scope, the flag and the stored position are those on entry.
C6_ScopeRestores ==
    /\ (pc = "done" /\ op = "tbls_ctor") => tbls.saved = obs.pre.active
    /\ (pc = "done" /\ op = "tbls_dtor") =>
        /\ ~(cfg.backend = "BILINEAR" /\ tbls.saved /\ ~mesh_valid)
              => leveling_active = tbls.saved
        /\ ~tbls.dirty =>
              (leveling_active = tbls.saved /\ current_position = obs.ref_pos)

\* Scenario C: a scope entered with leveling on and forced off is left with
\* leveling on again and the position (at a corrected point) as on entry.
C6_Witness ==
    /\ pc = "done" /\ op = "tbls_dtor" /\ ~tbls.dirty /\ tbls.saved
    /\ obs.swaps = 1 /\ leveling_active
    /\ current_position = obs.ref_pos
    /\ ~ZeroCorrection(current_position, z_fade_height)

\* C7: set_z_fade_height entered with leveling active returns with leveling
\* active, and with the stored position unchanged when the correction at the
\* position is zero under both the old and the new fade height.
C7_FadeBracket ==
    (pc = "done" /\ op = "szfh" /\ obs.pre.active) =>
        /\ leveling_active
        /\ (ZeroCorrection(obs.pre.pos, obs.pre.fade)
              /\ ZeroCorrection(obs.pre.pos, z_fade_height))
            => current_position = obs.pre.pos

\* A changed fade height at a point whose mesh correction is non-zero but
\* faded out under both heights.
C7_Witness ==
    /\ pc = "done" /\ op = "szfh" /\ obs.pre.active /\ leveling_active
    /\ z_fade_height # obs.pre.fade /\ obs.swaps = 2
    /\ ZeroCorrection(obs.pre.pos, obs.pre.fade)
    /\ ZeroCorrection(obs.pre.pos, z_fade_height)
    /\ get_z_correction(obs.pre.pos) # R(0)
    /\ current_position = obs.pre.pos

\* C8: set_z_fade_height with the stored value returns with the flag, the
\* fade height, the stored position and the planner position unchanged, with
\* no flip, no drain and no position report.
C8_UnchangedFadeNoOp ==
    (pc = "done" /\ op = "szfh" /\ locals.zfh = obs.pre.fade) =>
        /\ Snapshot = obs.pre
        /\ obs.swaps = 0 /\ obs.drains = 0 /\ ~obs.waited /\ ~obs.reported

\* The unchanged value given while leveling is on and blocks are queued.
C8_Witness ==
    /\ pc = "done" /\ op = "szfh" /\ locals.zfh = obs.pre.fade
    /\ leveling_active /\ queue # <<>> /\ locals.do_report

GotoDone == op = "goto" /\ pc \in {"mg_clear", "done"}
MoveTarget(m) == Pos(m.x, m.y, m.z)
GotoXY == locals.target
\* The resting Z the claim names: the starting Z if configured, else the Z
\* on entry.
RestingZ == IF cfg.has_start_z THEN R(cfg.start_z) ELSE obs.pre.pos.z

C11_NeverNegative == GotoDone => RLe(R(0), current_position.z)

\* C11, amended: with a starting Z configured the machine is left at that Z
\* raised to 0 if it is negative, so never below 0; without one it is left at
\* the Z it had on entry, whatever its sign.
C11_ClampedStartZ ==
    GotoDone =>
        IF cfg.has_start_z
          THEN /\ current_position.z = (IF cfg.start_z < 0 THEN R(0) ELSE R(cfg.start_z))
               /\ RLe(R(0), current_position.z)
          ELSE current_position.z = obs.pre.pos.z

\* A starting Z of -1 configured: the machine rests at Z 0.
C11_Witness ==
    /\ GotoDone /\ pc = "done" /\ cfg.has_start_z /\ cfg.start_z = -1
    /\ current_position.z = R(0) /\ Len(moves) = 1

\* C12: with the executor consuming, every call of set_bed_leveling_enabled
\* that passes line 64 returns with leveling_active equal to its argument;
\* and while blocks are queued the call stays in planner.synchronize(), with
\* leveling_active not changing.
C12_DrainLiveness ==
    /\ (pc = "sble_entry" /\ must_change(enable)) ~> (pc = "done" /\ leveling_active = enable)
    /\ [][(pc = "sble_sync" /\ queue # <<>>) =>
              (pc' = "sble_sync" /\ leveling_active' = leveling_active)]_vars

\* A call that waited on queued blocks has returned with the flag swapped.
C12_Witness ==
    /\ op = "sble" /\ pc = "done" /\ obs.waited /\ obs.drains = 1 /\ obs.swaps = 1
    /\ leveling_active = enable /\ obs.pre.active # enable

\* print_2d_array has written its report of the grid it was given.
PrintDone == op = "print" /\ pc = "done"
Report == locals.grid

\* The report read back as the host reads it: lines ended by EOL.
RECURSIVE FirstEol(_, _)
FirstEol(s, i) == IF i > Len(s) THEN 0 ELSE IF s[i] = EOL THEN i ELSE FirstEol(s, i + 1)
RECURSIVE Split(_)
Split(s) ==
    IF s = <<>> THEN <<>>
    ELSE LET k == FirstEol(s, 1)
         IN  IF k = 0 THEN <<s>>
             ELSE <<SubSeq(s, 1, k - 1)>> \o Split(SubSeq(s, k + 1, Len(s)))
Lines == Split(serial)

\* The precision + 3 characters of the cell at column x of a row: each cell
\* follows one separating blank, and the row index takes two characters.
CellText(row, x) ==
    SubSeq(row, 4 + x * (Report.precision + 4), 2 + (x + 1) * (Report.precision + 4))

DigitValue(c) == CHOOSE d \in 0..9 : Digit(d) = c
RECURSIVE DigitsValue(_)
DigitsValue(s) ==
    IF s = <<>> THEN 0
    ELSE 10 * DigitsValue(SubSeq(s, 1, Len(s) - 1)) + DigitValue(s[Len(s)])

\* The number a cell of sign, digit, point, p digits stands for.
ParseCell(t, p) ==
    IF t[1] \in {"+", "-"} /\ t[3] = "."
      THEN Norm((IF t[1] = "-" THEN -1 ELSE 1)
                    * (DigitValue(t[2]) * 10^p + DigitsValue(SubSeq(t, 4, p + 3))), 10^p)
      ELSE NaN

\* In the lines ls the cell at row y, column x shows values[x * sy + y]: the
\* number itself, or for NaN exactly precision + 3 characters, a blank then
\* '='s.
CellsByColumn(ls) ==
    \A y \in 0..(Report.sy - 1) :
        LET row == ls[y + 2]
        IN  /\ Len(row) = 2 + Report.sx * (Report.precision + 4)
            /\ \A x \in 0..(Report.sx - 1) :
                  LET v == Report.values[x * Report.sy + y + 1]
                      t == CellText(row, x)
                  IN  IF isnan(v)
                        THEN t = [i \in 1..(Report.precision + 3) |->
                                      IF i = 1 THEN " " ELSE "="]
                        ELSE ParseCell(t, Report.precision) = v

\* C13 as stated: the cell at row y, column x is values[x * sy + y], a NaN
\* cell is precision + 3 characters (a blank, then '='), and the report has
\* sy + 1 lines.
C13_HeaderAndRows ==
    PrintDone => LET ls == Lines IN Len(ls) = Report.sy + 1 /\ CellsByColumn(ls)

\* C13, amended: the cells as stated; the report has sy + 2 lines, the header,
\* one per row, and an empty line that ends it.
C13_HeaderRowsAndBlank ==
    PrintDone =>
        LET ls == Lines
        IN  /\ Len(ls) = Report.sy + 2
            /\ CellsByColumn(ls)
            /\ serial[Len(serial)] = EOL
            /\ ls[Report.sy + 2] = <<>>
            /\ \A k \in 1..(Report.sy + 1) : ls[k] # <<>>

\* A 2x2 grid at precision 2 whose values[1] (row 1, column 0) is NaN and
\* whose values[2] (row 0, column 1) is -3/2.
C13_Witness ==
    /\ PrintDone /\ Report.sx = 2 /\ Report.sy = 2 /\ Report.precision = 2
    /\ Report.values = << <<1, 2>>, NaN, <<-3, 2>>, <<1, 2>> >>
    /\ Lines[2] = <<" ", "0", " ", "+", "0", ".", "5", "0", " ", "-", "1", ".", "5", "0">>
    /\ Lines[3] = <<" ", "1", " ", " ", "=", "=", "=", "=", " ", "+", "0", ".", "5", "0">>

\* The physical position of the operation's entry state.
PhysicalBefore == apply_leveling(obs.pre.pos, obs.pre.active, obs.pre.fade)

\* C14: a call of set_bed_leveling_enabled that swapped the flag left the
\* physical position where it was: after a disable the stored position is
\* that physical position, after an enable the active transform applied to
\* the stored position gives it.
C14_PhysicalPreserved ==
    /\ (SbleDone /\ obs.swaps = 1) =>
          /\ apply_modifiers(current_position) = PhysicalBefore
          /\ ~leveling_active => current_position = PhysicalBefore
          /\ leveling_active => PhysicalBefore = obs.pre.pos
    /\ (op \in {"szfh", "rbl"} /\ pc \in {"szfh_set", "rbl_reset", "rbl_clear"}
            /\ obs.swaps = 1) =>
          (~leveling_active /\ current_position = PhysicalBefore)
    /\ (op = "szfh" /\ pc \in {"szfh_report", "done"} /\ obs.swaps = 2) =>
          (leveling_active /\ apply_modifiers(current_position) = locals.oldpos)

\* An enable at a point with a nonzero correction: the stored position has
\* changed and its transform is the position held before.
C14_Witness ==
    /\ SbleDone /\ obs.swaps = 1 /\ leveling_active
    /\ current_position # obs.pre.pos
    /\ apply_modifiers(current_position) = obs.pre.pos

\* C15: planner.z_fade_height changes only in the store of line 101, and
\* leveling is off in the state it is stored from and in the state it is
\* stored into.
C15_FadeWrittenWhileOff ==
    [][z_fade_height' # z_fade_height =>
          (pc = "szfh_set" /\ ~leveling_active /\ ~leveling_active')]_vars

\* A new fade height has been stored in a call entered with leveling on:
\* leveling is off, the re-enable is still to come.
C15_Witness ==
    /\ op = "szfh" /\ pc = "sble_entry" /\ ret = "szfh_report"
    /\ obs.pre.active /\ obs.swaps = 1 /\ ~leveling_active
    /\ z_fade_height = locals.zfh /\ z_fade_height # obs.pre.fade

\* C19: set_z_fade_height returns with the fade height equal to its argument;
\* and called with a new value while leveling is off it leaves leveling off
\* and the position as it was, waits on nothing, swaps nothing and reports
\* nothing.
C19_FadeWhileDisabled ==
    (op = "szfh" /\ pc = "done") =>
        /\ z_fade_height = locals.zfh
        /\ (locals.zfh # obs.pre.fade /\ ~obs.pre.active) =>
              /\ ~leveling_active
              /\ current_position = obs.pre.pos
              /\ plan_position = obs.pre.plan
              /\ obs.drains = 0 /\ obs.swaps = 0 /\ ~obs.waited /\ ~obs.reported

\* A new fade height set with leveling off, asking for a report, over a
\* valid mesh.
C19_Witness ==
    /\ op = "szfh" /\ pc = "done" /\ ~obs.pre.active /\ obs.pre.valid
    /\ locals.zfh # obs.pre.fade /\ z_fade_height = locals.zfh /\ locals.do_report
    /\ ~leveling_active

\* C16: in a build with LCD_BED_LEVELING, under each of the three policies,
\* _manual_goto_xy leaves ui.wait_for_move as it found it until all its
\* blocking moves have been issued and executed, then clears it once and
\* returns.
C16_ClearedOnceAtEnd ==
    (op = "goto" /\ cfg.lcd) =>
        /\ pc # "done" => (obs.cleared = 0 /\ wait_for_move = obs.pre.waiting)
        /\ pc \in {"mg_clear", "done"} =>
              (queue = <<>> /\ Len(moves) = (IF cfg.clearance > 0 THEN 2 ELSE 1))
        /\ pc = "done" => (obs.cleared = 1 /\ ~wait_for_move)

\* The flag was set on entry; both moves of the clearance policy are done
\* and the flag is cleared.
C16_Witness ==
    /\ op = "goto" /\ pc = "done" /\ cfg.lcd /\ cfg.clearance > 0
    /\ obs.pre.waiting /\ ~wait_for_move /\ obs.cleared = 1
    /\ Len(moves) = 2 /\ queue = <<>>

\* C17: over all the operations, planner.leveling_active changes only in the
\* FLIP of line 80; and print_2d_array and _manual_goto_xy leave it and the
\* fade height as they found them.
C17_FlagChangesOnlyInFlip ==
    /\ [][leveling_active' # leveling_active =>
              (pc = "sble_flip" /\ pc' = "sble_unapply")]_vars
    /\ [](op \in {"print", "goto"} =>
              (leveling_active = obs.pre.active /\ z_fade_height = obs.pre.fade))

\* The flag has just been flipped off inside reset_bed_level, by the call it
\* makes.
C17_Witness ==
    /\ op = "rbl" /\ pc = "sble_unapply" /\ obs.pre.active /\ ~leveling_active
    /\ obs.swaps = 1

\* C18 as stated: in a bilinear build leveling_active implies a valid mesh,
\* and neither the re-enable of set_z_fade_height nor the restoring call of
\* a TemporaryBedLevelingState that saved true is refused by line 62.
C18_NeverRefused ==
    cfg.backend = "BILINEAR" =>
        /\ leveling_active => mesh_valid
        /\ (op = "szfh" /\ pc \in {"szfh_report", "done"} /\ locals.was_active)
              => leveling_active
        /\ (op = "tbls_dtor" /\ pc = "done" /\ tbls.saved) => leveling_active

\* C18, amended: in a bilinear build leveling_active implies a valid mesh and
\* the re-enable of set_z_fade_height is never refused; the restoring call of
\* a scope that saved true succeeds if the mesh is still valid and is refused,
\* leaving leveling off, if the mesh was reset inside the scope.
C18_EnabledImpliesValid ==
    cfg.backend = "BILINEAR" =>
        /\ leveling_active => mesh_valid
        /\ (op = "szfh" /\ pc \in {"szfh_report", "done"} /\ locals.was_active)
              => leveling_active
        /\ (op = "tbls_dtor" /\ pc = "done" /\ tbls.saved) =>
              (leveling_active <=> mesh_valid)

\* A scope that saved true is left after a reset inside it: the restoring
\* call was refused and leveling stays off.
C18_Witness ==
    /\ cfg.backend = "BILINEAR" /\ op = "tbls_dtor" /\ pc = "done" /\ tbls.saved
    /\ ~mesh_valid /\ ~leveling_active /\ obs.swaps = 0 /\ obs.drains = 0

====
